---- MODULE Spec2Model ----
(***************************************************************************)
(* Model of init_workflow.py: the Confluence workflow initialiser.         *)
(*                                                                         *)
(* A string is a sequence of lexical tokens, "/" being the path separator, *)
(* so that prefix matching (S3 Prefix=) and path joining (pathlib) are     *)
(* computed rather than assumed.  A path is the sequence of its segments,  *)
(* each segment a non-empty token sequence; all paths are absolute.        *)
(* The filesystem is the set of directories plus a map from file paths to  *)
(* a content tag.                                                          *)
(***************************************************************************)
EXTENDS Naturals, Sequences, FiniteSets, TLC

VARIABLES
    prefix,               \* args.prefix
    reaches_of_interest,  \* args.reachsubset ("" is <<>>)
    deletemap,            \* whether "-d" was given on the command line
    pc,                   \* position of the process
    dirs,                 \* directories of the filesystem
    files,                \* file path -> content tag
    calls,                \* storage operations issued so far, in order
    bi,                   \* index in DATA_PREFIXES of the prefix being fetched
    pages,                \* pages the paginator of the current fetch yields
    pn,                   \* number of pages consumed so far
    items,                \* download_directory's items list
    ii,                   \* number of items processed so far
    fetch0,               \* filesystem and call count when the current fetch began
    snap,                 \* filesystem at the start, and after the first set_up_efs run
    err                   \* the exception that ended the process ("" if none)

vars == <<prefix, reaches_of_interest, deletemap, pc, dirs, files, calls,
          bi, pages, pn, items, ii, fetch0, snap, err>>

----------------------------------------------------------------------------
(* Bounds *)

MaxPre == 1        \* pre-existing filesystem entries of a workflow run
MaxPreEfs == 2     \* pre-existing filesystem entries of the provisioner runs
MaxPages == 2      \* pages of one listing
MaxPageKeys == 2   \* keys of one page

----------------------------------------------------------------------------
(* Strings and paths *)

Sep == "/"

RECURSIVE Parts(_, _, _)
\* The segments of string s; empty segments (doubled or trailing separators)
\* are dropped, as pathlib does.
Parts(s, cur, acc) ==
    IF s = <<>>
    THEN IF cur = <<>> THEN acc ELSE Append(acc, cur)
    ELSE IF Head(s) = Sep
         THEN Parts(Tail(s), <<>>, IF cur = <<>> THEN acc ELSE Append(acc, cur))
         ELSE Parts(Tail(s), Append(cur, Head(s)), acc)

\* pathlib.PurePath.joinpath with one argument: an absolute argument replaces
\* the base.
joinpath(base, s) ==
    IF s # <<>> /\ Head(s) = Sep
    THEN Parts(s, <<>>, <<>>)
    ELSE base \o Parts(s, <<>>, <<>>)

\* pathlib.PurePath.parent
parent(p) == IF p = <<>> THEN p ELSE SubSeq(p, 1, Len(p) - 1)

\* pathlib.PurePath.name
name(p) == IF p = <<>> THEN <<>> ELSE p[Len(p)]

\* str.startswith, which is how S3 matches Prefix= against a key
startswith(s, p) == Len(p) <= Len(s) /\ SubSeq(s, 1, Len(p)) = p

\* p and all its ancestors, the root excluded
Ancestry(p) == { SubSeq(p, 1, n) : n \in 1..Len(p) }

----------------------------------------------------------------------------
(* Constants of the program *)

EFS_DIR_INPUT == << <<"mnt">>, <<"input">> >>
EFS_DIR_FLPE == << <<"mnt">>, <<"flpe">> >>
EFS_DIR_MOI == << <<"mnt">>, <<"moi">> >>
EFS_DIR_DIAGNOSTICS == << <<"mnt">>, <<"diagnostics">> >>
EFS_DIR_OFFLINE == << <<"mnt">>, <<"offline">> >>
EFS_DIR_VALIDATION == << <<"mnt">>, <<"validation">> >>
EFS_DIR_OUTPUT == << <<"mnt">>, <<"output">> >>
EFS_DIR_LOGS == << <<"mnt">>, <<"logs">> >>

SWORD_PATCHES == joinpath(EFS_DIR_INPUT, <<"sword", "_patches_v216.json">>)

CONT_SETFINDER == <<"continent-setfinder.json">>

SSE == "aws:kms"

\* The directories set_up_efs makes, in the order it makes them.
EFS_DIRS == <<
    joinpath(EFS_DIR_INPUT, <<"gage">>),
    joinpath(joinpath(EFS_DIR_INPUT, <<"gage">>), <<"Rtarget">>),
    joinpath(joinpath(EFS_DIR_INPUT, <<"ssc">>), <<"model_static_files">>),
    joinpath(joinpath(EFS_DIR_INPUT, <<"lakeflow">>), <<"ancillary">>),
    joinpath(EFS_DIR_INPUT, <<"sos">>),
    joinpath(EFS_DIR_INPUT, <<"sword">>),
    joinpath(EFS_DIR_INPUT, <<"swot">>),
    joinpath(EFS_DIR_INPUT, <<"ssc", "/", "model_static_files", "/", "nd_20250430",
                              "/", "gl_20250522_2_m1">>),
    joinpath(EFS_DIR_INPUT, <<"ssc", "/", "model_static_files", "/", "nd_20250430",
                              "/", "gl_20250522_2_m2">>),
    joinpath(EFS_DIR_FLPE, <<"geobam">>),
    joinpath(EFS_DIR_FLPE, <<"hivdi">>),
    joinpath(EFS_DIR_FLPE, <<"metroman">>),
    joinpath(joinpath(EFS_DIR_FLPE, <<"metroman">>), <<"sets">>),
    joinpath(EFS_DIR_FLPE, <<"momma">>),
    joinpath(EFS_DIR_FLPE, <<"sad">>),
    joinpath(EFS_DIR_FLPE, <<"sic4dvar">>),
    joinpath(EFS_DIR_FLPE, <<"ssc">>),
    joinpath(EFS_DIR_FLPE, <<"lakeflow">>),
    joinpath(EFS_DIR_DIAGNOSTICS, <<"prediagnostics">>),
    joinpath(joinpath(EFS_DIR_DIAGNOSTICS, <<"postdiagnostics">>), <<"basin">>),
    joinpath(joinpath(EFS_DIR_DIAGNOSTICS, <<"postdiagnostics">>), <<"reach">>),
    joinpath(EFS_DIR_VALIDATION, <<"figs">>),
    joinpath(EFS_DIR_VALIDATION, <<"stats">>),
    joinpath(EFS_DIR_OUTPUT, <<"sos">>),
    joinpath(EFS_DIR_LOGS, <<"sic4dvar">>) >>

EfsDirSet == { EFS_DIRS[n] : n \in 1..Len(EFS_DIRS) }

\* The prefixes download_data fetches, in order.
DATA_PREFIXES == << <<"gage">>, <<"sword">>, <<"ssc">>, <<"lakeflow">>, <<"sos">> >>

----------------------------------------------------------------------------
(* Filesystem operations.  A filesystem value is [dirs, files, err].       *)

\* A check that never finds anything.
exists_never(d, f, p) == FALSE

\* pathlib.Path.is_file in place of exists: a directory does not count.
exists_is_file(d, f, p) == p \in DOMAIN f

\* pathlib.Path.exists
exists(d, f, p) == p = <<>> \/ p \in d \/ p \in DOMAIN f

\* Whether some path of the ancestry of p (p included) is a regular file.
FileInTheWay(f, p) == \E q \in Ancestry(p) : q \in DOMAIN f

\* mkdir without exist_ok: an existing directory raises too.
mkdir_no_exist_ok(fsv, p) ==
    IF fsv.err # "" THEN fsv
    ELSE IF p \in DOMAIN fsv.files \/ p \in fsv.dirs
         THEN [fsv EXCEPT !.err = "FileExistsError"]
         ELSE IF FileInTheWay(fsv.files, p)
              THEN [fsv EXCEPT !.err = "NotADirectoryError"]
              ELSE [fsv EXCEPT !.dirs = fsv.dirs \cup Ancestry(p)]

\* pathlib.Path.mkdir(parents=True, exist_ok=True): every missing ancestor is
\* made; an existing directory is no error; a regular file at p or above it
\* raises and nothing is made.
mkdir(fsv, p) ==
    IF fsv.err # "" THEN fsv
    ELSE IF p \in DOMAIN fsv.files
         THEN [fsv EXCEPT !.err = "FileExistsError"]
         ELSE IF FileInTheWay(fsv.files, p)
              THEN [fsv EXCEPT !.err = "NotADirectoryError"]
              ELSE [fsv EXCEPT !.dirs = fsv.dirs \cup Ancestry(p)]

RECURSIVE MkdirAll(_, _, _)
\* The mkdir calls on ps[n..], in order, stopping at the first that raises.
\* (The filesystem after each call is bound as x, so it is computed once.)
MkdirAll(fsv, ps, n) ==
    IF n > Len(ps) THEN fsv
    ELSE CHOOSE r \in { MkdirAll(x, ps, n + 1) : x \in { mkdir(fsv, ps[n]) } } : TRUE

\* set_up_efs left out: nothing is made.
set_up_efs_skipped(d, f) == [dirs |-> d, files |-> f, err |-> ""]

\* set_up_efs()
set_up_efs(d, f) == MkdirAll([dirs |-> d, files |-> f, err |-> ""], EFS_DIRS, 1)

----------------------------------------------------------------------------
(* Initial filesystems: at most n entries chosen among candidates, each a  *)
(* directory or a regular file at a path, with the directories above them. *)

RECURSIVE UpTo(_, _)
\* The subsets of S with at most n elements.
UpTo(S, n) ==
    IF n = 0 THEN {{}}
    ELSE LET R == UpTo(S, n - 1) IN R \cup { r \cup {x} : r \in R, x \in S }

\* No path is chosen twice and nothing lies below a regular file.
Consistent(S) ==
    \A a, b \in S :
        /\ a.path = b.path => a = b
        /\ a.kind = "file" /\ a.path # b.path => ~ startswith(b.path, a.path)

\* The content tag of a file no run of the program wrote.
LocalData == [bucket |-> <<>>, key |-> <<>>]

FilesOf(S) == [p \in { e.path : e \in { x \in S : x.kind = "file" } } |-> LocalData]

DirsOf(S) == (UNION { Ancestry(e.path) : e \in S }) \ DOMAIN FilesOf(S)

PreStates(cands, n) == { S \in UpTo(cands, n) : Consistent(S) }

\* Entries the provisioner runs may find on disk: a directory or a file at
\* a fixed directory's path, above it, or at the path of an earlier run's
\* output.
EfsCands ==
    [path : (UNION { Ancestry(p) : p \in EfsDirSet })
            \cup { joinpath(EFS_DIR_INPUT, <<"gage", "/", "old.csv">>),
                   joinpath(EFS_DIR_FLPE, <<"sad", "/", "out.nc">>) },
     kind : {"dir", "file"}]

Idle ==
    /\ prefix = <<>> /\ reaches_of_interest = <<>> /\ deletemap = FALSE
    /\ calls = <<>> /\ bi = 0 /\ pages = <<>> /\ pn = 0 /\ items = <<>> /\ ii = 0
    /\ fetch0 = [dirs |-> {}, files |-> <<>>, ncalls |-> 0]

----------------------------------------------------------------------------
(* Inputs of a workflow run *)

\* Values of --prefix.
Prefixes == { <<"test">>, <<"prod">> }

\* Values of --reachsubset; the default is the empty string.
ReachSubsets == { <<>>, <<"roi_123.json">>, <<"sword", "_patches_v216.json">> }

\* Keys the config bucket may list.  "gage/" is a folder marker, "sos//x.nc"
\* names the same local path as "sos/x.nc", "sword_patches_v216.json" matches
\* Prefix="sword", and nothing lies under "ssc".
KeyUniverse ==
    { <<"gage", "/">>,
      <<"gage", "/", "g1.csv">>,
      <<"sword", "/", "na", "/", "s1.nc">>,
      <<"sword", "_patches_v216.json">>,
      <<"lakeflow", "/", "a.nc">>,
      <<"sos", "/", "x.nc">>,
      <<"sos", "/", "/", "x.nc">> }

\* Keys list_objects_v2 returns for Prefix=p.
KeysUnder(p) == { k \in KeyUniverse : startswith(k, p) }

RECURSIVE SeqsUpTo(_, _)
\* The sequences over S of length at most n.
SeqsUpTo(S, n) ==
    IF n = 0 THEN { <<>> }
    ELSE LET R == SeqsUpTo(S, n - 1) IN R \cup { Append(r, x) : r \in R, x \in S }

\* The listings a paginator may yield for Prefix=p: at least one page, each
\* page holding zero or more keys (a page of zero keys has no "Contents").
Listings(p) ==
    SeqsUpTo(SeqsUpTo(KeysUnder(p), MaxPageKeys), MaxPages) \ { <<>> }

RECURSIVE Flatten(_)
Flatten(ps) == IF ps = <<>> THEN <<>> ELSE Head(ps) \o Flatten(Tail(ps))

\* Entries a run may find on disk: a file where the run mirrors an object,
\* a file where it needs a directory, or one of three directories.
RunCands ==
    [path : { joinpath(EFS_DIR_INPUT, k) :
                k \in KeyUniverse \cup ReachSubsets \cup {CONT_SETFINDER} }
            \cup { joinpath(EFS_DIR_INPUT, <<"sword", "/", "na">>) },
     kind : {"file"}]
    \cup [path : { joinpath(EFS_DIR_INPUT, <<"gage">>),
                   joinpath(EFS_DIR_INPUT, <<"sword", "/", "na">>),
                   joinpath(EFS_DIR_INPUT, CONT_SETFINDER) },
          kind : {"dir"}]

config_bucket == prefix \o <<"-config">>

\* The uploads sent to the bucket the downloads came from.
json_bucket_is_config == prefix \o <<"-config">>

json_bucket == prefix \o <<"-json">>

\* One storage call: what was asked, whether the local path was on disk when
\* it was issued, and whether it completed.
Call(op, bucket, key, file, existed, sse, ok) ==
    [op |-> op, bucket |-> bucket, key |-> key, file |-> file,
     existed |-> existed, sse |-> sse, ok |-> ok]

----------------------------------------------------------------------------
(* The provisioner alone, run twice in succession.                         *)

InitEfs ==
    /\ Idle
    /\ \E S \in PreStates(EfsCands, MaxPreEfs) :
          /\ dirs = DirsOf(S)
          /\ files = FilesOf(S)
          /\ snap = [dirs0 |-> DirsOf(S), files0 |-> FilesOf(S),
                     dirs1 |-> {}, err1 |-> ""]
    /\ pc = "efs_first"
    /\ err = ""

EfsFirst ==
    /\ pc = "efs_first"
    /\ LET r == set_up_efs(dirs, files) IN
          /\ dirs' = r.dirs
          /\ files' = r.files
          /\ snap' = [snap EXCEPT !.dirs1 = r.dirs, !.err1 = r.err]
    /\ pc' = "efs_second"
    /\ UNCHANGED <<prefix, reaches_of_interest, deletemap, calls, bi, pages, pn,
                   items, ii, fetch0, err>>

EfsSecond ==
    /\ pc = "efs_second"
    /\ LET r == set_up_efs(dirs, files) IN
          /\ dirs' = r.dirs
          /\ files' = r.files
          /\ err' = r.err
    /\ pc' = "efs_end"
    /\ UNCHANGED <<prefix, reaches_of_interest, deletemap, calls, bi, pages, pn,
                   items, ii, fetch0, snap>>

NextEfs == EfsFirst \/ EfsSecond

SpecEfs == InitEfs /\ [][NextEfs]_vars

\* No regular file lies at a fixed directory path or above one: each fixed
\* directory is either absent or present as a directory.
FixedPathsFree(f) == \A p \in EfsDirSet : ~ FileInTheWay(f, p)

\* C1: after set_up_efs has run twice, the directory set is the one the first
\* run left, every directory and file that existed before is still there
\* with its content, and, when no regular file occupied a fixed path, neither
\* run raised and the whole fixed directory set exists.
C1_ProvisionerIdempotent ==
    pc = "efs_end" =>
        /\ dirs = snap.dirs1
        /\ snap.dirs0 \subseteq dirs
        /\ files = snap.files0
        /\ FixedPathsFree(snap.files0) =>
              /\ snap.err1 = ""
              /\ err = ""
              /\ EfsDirSet \subseteq dirs

\* C1 witness: both runs are over, from a filesystem that held one of the
\* fixed directories and a file, and lacked another fixed directory.
C1_Witness ==
    /\ pc = "efs_end"
    /\ err = ""
    /\ snap.dirs0 \cap EfsDirSet # {}
    /\ EfsDirSet \ snap.dirs0 # {}
    /\ DOMAIN snap.files0 # {}

----------------------------------------------------------------------------
(* One run of init_workflow                                                *)

argvars == <<prefix, reaches_of_interest, deletemap>>
fetchvars == <<bi, pages, pn, items, ii, fetch0>>

Obj(bucket, key) == [bucket |-> bucket, key |-> key]

Init ==
    /\ prefix \in Prefixes
    /\ reaches_of_interest \in ReachSubsets
    /\ deletemap \in BOOLEAN
    /\ \E S \in PreStates(RunCands, MaxPre) :
          /\ dirs = DirsOf(S)
          /\ files = FilesOf(S)
          /\ snap = [dirs0 |-> DirsOf(S), files0 |-> FilesOf(S),
                     dirs1 |-> {}, err1 |-> ""]
    /\ pc = "parse"
    /\ calls = <<>> /\ bi = 0 /\ pages = <<>> /\ pn = 0 /\ items = <<>> /\ ii = 0
    /\ fetch0 = [dirs |-> {}, files |-> <<>>, ncalls |-> 0]
    /\ err = ""

\* download_file inside a handler that logs the failure and carries on.
DownloadFile_swallow(bucket, key, dest, d, nextpc) ==
    \E remote \in BOOLEAN :
        LET ok == remote /\ dest # <<>> /\ dest \notin d
                         /\ (parent(dest) = <<>> \/ parent(dest) \in d)
        IN  /\ calls' = Append(calls, Call("download", bucket, key, dest,
                                           dest \in d \/ dest \in DOMAIN files,
                                           "", ok))
            /\ files' = IF ok THEN (dest :> Obj(bucket, key)) @@ files ELSE files
            /\ pc' = nextpc
            /\ err' = err

\* S3.download_file(bucket, key, dest) with the directories being d: the
\* request may fail remotely; locally it needs dest's directory and cannot
\* replace a directory.  A success writes the object over whatever file is at
\* dest; a failure raises and leaves the files alone.
DownloadFile(bucket, key, dest, d, nextpc) ==
    \E remote \in BOOLEAN :
        LET ok == remote /\ dest # <<>> /\ dest \notin d
                         /\ (parent(dest) = <<>> \/ parent(dest) \in d)
        IN  /\ calls' = Append(calls, Call("download", bucket, key, dest,
                                           dest \in d \/ dest \in DOMAIN files,
                                           "", ok))
            /\ files' = IF ok THEN (dest :> Obj(bucket, key)) @@ files ELSE files
            /\ pc' = IF ok THEN nextpc ELSE "aborted"
            /\ err' = IF ok THEN err ELSE IF remote THEN "OSError" ELSE "ClientError"

\* S3.upload_file(file, bucket, key, ExtraArgs={"ServerSideEncryption": sse})
UploadFile(file, bucket, key, sse, nextpc) ==
    \E remote \in BOOLEAN :
        LET ok == remote /\ file \in DOMAIN files
        IN  /\ calls' = Append(calls, Call("upload", bucket, key, file, FALSE, sse, ok))
            /\ pc' = IF ok THEN nextpc ELSE "aborted"
            /\ err' = IF ok THEN err ELSE IF remote THEN "OSError" ELSE "ClientError"

\* create_args().parse_args(): only -p and -r are defined, so a command line
\* carrying -d is rejected and the process exits before doing anything.
ParseArgs ==
    /\ pc = "parse"
    /\ pc' = IF deletemap THEN "aborted" ELSE "set_up_efs"
    /\ err' = IF deletemap THEN "SystemExit" ELSE err
    /\ UNCHANGED <<argvars, dirs, files, calls, fetchvars, snap>>

\* init_workflow: set_up_efs()
SetUpEfs ==
    /\ pc = "set_up_efs"
    /\ LET r == set_up_efs(dirs, files) IN
          /\ dirs' = r.dirs
          /\ files' = r.files
          /\ err' = r.err
          /\ pc' = IF r.err # "" THEN "aborted"
                   ELSE IF reaches_of_interest # <<>> THEN "roi_download"
                   ELSE "cont_download"
    /\ UNCHANGED <<argvars, calls, fetchvars, snap>>

\* download_data: the subset file is downloaded, whether or not it is there
RoiDownload ==
    /\ pc = "roi_download"
    /\ DownloadFile(config_bucket, reaches_of_interest,
                    joinpath(EFS_DIR_INPUT, reaches_of_interest), dirs, "roi_upload")
    /\ UNCHANGED <<argvars, dirs, fetchvars, snap>>

\* download_data: and uploaded to the json bucket
RoiUpload ==
    /\ pc = "roi_upload"
    /\ UploadFile(joinpath(EFS_DIR_INPUT, reaches_of_interest), json_bucket,
                  reaches_of_interest, SSE, "cont_download")
    /\ UNCHANGED <<argvars, dirs, files, fetchvars, snap>>

\* download_data: continent-setfinder.json is downloaded, whether or not it is there
ContDownload ==
    /\ pc = "cont_download"
    /\ DownloadFile(config_bucket, CONT_SETFINDER,
                    joinpath(EFS_DIR_INPUT, CONT_SETFINDER), dirs, "cont_upload")
    /\ UNCHANGED <<argvars, dirs, fetchvars, snap>>

\* download_data: and uploaded to the json bucket
ContUpload ==
    /\ pc = "cont_upload"
    /\ UploadFile(joinpath(EFS_DIR_INPUT, CONT_SETFINDER), json_bucket,
                  CONT_SETFINDER, SSE, "patches")
    /\ UNCHANGED <<argvars, dirs, files, fetchvars, snap>>

\* The sword patches file downloaded like the two files before it.
SwordPatches_unconditional ==
    /\ pc = "patches"
    /\ DownloadFile(config_bucket, name(SWORD_PATCHES), SWORD_PATCHES, dirs, "paginate")
    /\ bi' = 1
    /\ UNCHANGED <<argvars, dirs, pages, pn, items, ii, fetch0, snap>>

\* download_data: the sword patches file is downloaded unless it exists
SwordPatches ==
    /\ pc = "patches"
    /\ IF ~ exists(dirs, files, SWORD_PATCHES)
       THEN DownloadFile(config_bucket, name(SWORD_PATCHES), SWORD_PATCHES,
                         dirs, "paginate")
       ELSE /\ pc' = "paginate"
            /\ UNCHANGED <<calls, files, err>>
    /\ bi' = 1
    /\ UNCHANGED <<argvars, dirs, pages, pn, items, ii, fetch0, snap>>

\* download_directory: the paginator for Prefix=DATA_PREFIXES[bi] is made and
\* items starts empty; no request is sent yet.
Paginate ==
    /\ pc = "paginate"
    /\ pages' \in Listings(DATA_PREFIXES[bi])
    /\ pn' = 0
    /\ items' = <<>>
    /\ ii' = 0
    /\ fetch0' = [dirs |-> dirs, files |-> files, ncalls |-> Len(calls)]
    /\ pc' = "list_page"
    /\ UNCHANGED <<argvars, dirs, files, calls, bi, snap, err>>

\* The keys one page adds to items.
PageKeys(page) == IF page # <<>> THEN page ELSE <<>>

\* The page's keys assigned to items instead of appended.
ListPage_assign ==
    /\ pc = "list_page"
    /\ \E remote \in BOOLEAN :
          IF remote
          THEN /\ items' = PageKeys(pages[pn + 1])
               /\ pn' = pn + 1
               /\ pc' = IF pn + 1 = Len(pages) THEN "items" ELSE "list_page"
               /\ err' = err
          ELSE /\ pc' = "aborted"
               /\ err' = "ClientError"
               /\ UNCHANGED <<items, pn>>
    /\ UNCHANGED <<argvars, dirs, files, calls, bi, pages, ii, fetch0, snap>>

\* download_directory: one turn of "for page in page_iterator"; the request
\* for the page may fail.
ListPage ==
    /\ pc = "list_page"
    /\ \E remote \in BOOLEAN :
          IF remote
          THEN /\ items' = items \o PageKeys(pages[pn + 1])
               /\ pn' = pn + 1
               /\ pc' = IF pn + 1 = Len(pages) THEN "items" ELSE "list_page"
               /\ err' = err
          ELSE /\ pc' = "aborted"
               /\ err' = "ClientError"
               /\ UNCHANGED <<items, pn>>
    /\ UNCHANGED <<argvars, dirs, files, calls, bi, pages, ii, fetch0, snap>>

\* download_directory: one turn of "for item in items"
ProcessItem ==
    /\ pc = "items"
    /\ ii < Len(items)
    /\ ii' = ii + 1
    /\ LET item == items[ii + 1]
           efs_file == joinpath(EFS_DIR_INPUT, item)
           r == mkdir([dirs |-> dirs, files |-> files, err |-> ""], parent(efs_file))
       IN  IF ~ exists(dirs, files, efs_file)
           THEN /\ dirs' = r.dirs
                /\ IF r.err # ""
                   THEN /\ pc' = "aborted"
                        /\ err' = r.err
                        /\ UNCHANGED <<calls, files>>
                   ELSE DownloadFile(config_bucket, item, efs_file, r.dirs, "items")
           ELSE UNCHANGED <<dirs, files, calls, pc, err>>
    /\ UNCHANGED <<argvars, bi, pages, pn, items, fetch0, snap>>

\* An empty items list treated as an error.
EndFetch_raise ==
    /\ pc = "items"
    /\ ii = Len(items)
    /\ bi' = bi + 1
    /\ pc' = IF items = <<>> THEN "aborted"
             ELSE IF bi = Len(DATA_PREFIXES) THEN "done" ELSE "paginate"
    /\ err' = IF items = <<>> THEN "ValueError" ELSE err
    /\ UNCHANGED <<argvars, dirs, files, calls, pages, pn, items, ii, fetch0, snap>>

\* download_directory returns (after the "No items detected" log when items
\* is empty) and download_data goes on to the next prefix, or returns.
EndFetch ==
    /\ pc = "items"
    /\ ii = Len(items)
    /\ bi' = bi + 1
    /\ pc' = IF bi = Len(DATA_PREFIXES) THEN "done" ELSE "paginate"
    /\ UNCHANGED <<argvars, dirs, files, calls, pages, pn, items, ii, fetch0, snap, err>>

Next ==
    \/ ParseArgs
    \/ SetUpEfs
    \/ RoiDownload
    \/ RoiUpload
    \/ ContDownload
    \/ ContUpload
    \/ SwordPatches
    \/ Paginate
    \/ ListPage
    \/ ProcessItem
    \/ EndFetch

Spec == Init /\ [][Next]_vars

----------------------------------------------------------------------------
(* Properties of a run *)

Terminal == {"done", "aborted"}

\* The process positions inside download_directory.
FetchPcs == {"paginate", "list_page", "items"}

\* The local path an object key is mirrored at.
Mirror(key) == joinpath(<< <<"mnt">>, <<"input">> >>, key)

OnDisk(d, f, p) == p \in d \/ p \in DOMAIN f

\* The calls download_data issues before any conditional fetch, as the
\* end-to-end scenario lists them: operation, bucket, key, local file and
\* requested server-side encryption.
Transfer(op, suffix, key, sse) ==
    [op |-> op, bucket |-> prefix \o <<suffix>>, key |-> key,
     file |-> Mirror(key), sse |-> sse]

UnconditionalCalls ==
    (IF reaches_of_interest # <<>>
     THEN << Transfer("download", "-config", reaches_of_interest, ""),
             Transfer("upload", "-json", reaches_of_interest, "aws:kms") >>
     ELSE <<>>)
    \o << Transfer("download", "-config", <<"continent-setfinder.json">>, ""),
          Transfer("upload", "-json", <<"continent-setfinder.json">>, "aws:kms") >>

SameCall(c, e) ==
    /\ c.op = e.op /\ c.bucket = e.bucket /\ c.key = e.key
    /\ c.file = e.file /\ c.sse = e.sse

\* The downloads of the current fetch.
FetchCalls == { n \in DOMAIN calls : n > fetch0.ncalls }

\* C2: in download_directory, a listed key whose destination exists when it
\* is reached causes no download call and changes nothing on disk; a key
\* whose destination does not exist causes exactly one download call, for
\* that key and destination, unless making the parent directory raises.
C2_SkipExisting ==
    [][ (pc = "items" /\ ii < Len(items)) =>
          LET key == items[ii + 1] IN
          IF OnDisk(dirs, files, Mirror(key))
          THEN /\ calls' = calls
               /\ files' = files
               /\ dirs' = dirs
               /\ pc' = "items"
          ELSE \/ /\ err' \in {"FileExistsError", "NotADirectoryError"}
                  /\ calls' = calls
               \/ /\ Len(calls') = Len(calls) + 1
                  /\ SubSeq(calls', 1, Len(calls)) = calls
                  /\ SameCall(calls'[Len(calls')],
                              Transfer("download", "-config", key, ""))
                  /\ err' \notin {"FileExistsError", "NotADirectoryError"} ]_vars

\* C2 witness: a fetch has skipped one key and downloaded another.
C2_Witness ==
    /\ pc = "items"
    /\ ii = 2
    /\ Cardinality(FetchCalls) = 1
    /\ items[1] # items[2]
    /\ \A n \in FetchCalls : calls[n].ok

\* C3 as stated: no download of a run ever lands on a path that exists.
C3_NeverOverwrites ==
    \A n \in DOMAIN calls :
        calls[n].op = "download" /\ calls[n].ok => ~ calls[n].existed

\* C3 amended: the sword patches fetch and the prefix fetches never land on a
\* path that exists, and every file that was on disk before the run, other
\* than the subset file and the continent lookup, keeps its content.
C3_ConditionalNeverOverwrite ==
    /\ \A n \in DOMAIN calls :
          n > Len(UnconditionalCalls) /\ calls[n].op = "download"
              => ~ calls[n].existed
    /\ \A p \in DOMAIN snap.files0 :
          p \notin { Mirror(reaches_of_interest), Mirror(<<"continent-setfinder.json">>) }
              => p \in DOMAIN files /\ files[p] = snap.files0[p]

\* C3 witness: the run is over, a file that was on disk was listed by a
\* prefix fetch, and the fetches downloaded something else.
C3_Witness ==
    /\ pc = "done"
    /\ Len(calls) > Len(UnconditionalCalls)
    /\ Mirror(<<"sos", "/", "x.nc">>) \in DOMAIN snap.files0
    /\ <<"sos", "/", "x.nc">> \in { items[n] : n \in DOMAIN items }

RECURSIVE Wanted(_, _)
\* The keys of ks, taken in order, whose destination is not on disk when the
\* key is reached; have is the set of paths on disk.
Wanted(ks, have) ==
    IF ks = <<>> THEN {}
    ELSE IF Mirror(Head(ks)) \in have
         THEN Wanted(Tail(ks), have)
         ELSE {Head(ks)} \cup Wanted(Tail(ks), have \cup {Mirror(Head(ks))})

\* C4: download_directory issues no download before every page is consumed,
\* items then holds the keys of all pages, and when the fetch is over the
\* keys it downloaded are the keys of all pages less those whose destination
\* was on disk when the key was reached.
C4_PaginationComplete ==
    /\ pc = "list_page" => FetchCalls = {}
    /\ pc = "items" => pn = Len(pages) /\ items = Flatten(pages)
    /\ pc = "items" /\ ii = Len(items) =>
          { calls[n].key : n \in FetchCalls }
              = Wanted(Flatten(pages), fetch0.dirs \cup DOMAIN fetch0.files)

\* C4 witness: a fetch over two pages, each with a key, is over; one key was
\* downloaded and the other was on disk.
C4_Witness ==
    /\ pc = "items"
    /\ ii = Len(items)
    /\ Len(pages) = 2
    /\ pages[1] # <<>> /\ pages[2] # <<>>
    /\ Cardinality(FetchCalls) = 1
    /\ calls[Len(calls)].key = pages[2][1]
    /\ OnDisk(fetch0.dirs, fetch0.files, Mirror(pages[1][1]))

\* C5: when the pages of a listing hold no key at all, the fetch issues no
\* download, leaves the disk as it was, raises nothing, and the run goes on
\* to the next prefix of the list (or ends after the last).
C5_EmptyListingBenign ==
    /\ [](pc = "items" /\ Flatten(pages) = <<>> =>
            /\ items = <<>>
            /\ FetchCalls = {}
            /\ dirs = fetch0.dirs /\ files = fetch0.files
            /\ err = "")
    /\ [][ pc = "items" /\ Flatten(pages) = <<>> =>
            /\ pc' = IF bi < 5 THEN "paginate" ELSE "done"
            /\ bi' = bi + 1
            /\ UNCHANGED <<dirs, files, calls, err>> ]_vars

\* C5 witness: the fetch of the second prefix begins after the first prefix
\* listed two pages without a key.
C5_Witness ==
    /\ pc = "paginate"
    /\ bi = 2
    /\ Len(pages) = 2
    /\ Flatten(pages) = <<>>

\* C6: the calls of a run begin with the download of the subset file from
\* {prefix}-config and its upload to {prefix}-json with aws:kms (both left
\* out when no subset file is named), then the download and upload of
\* continent-setfinder.json; an upload directly follows the completed
\* download of the same file; past these steps all of them were issued and
\* completed.
C6_SubsetAndContinentTransfer ==
    /\ \A n \in DOMAIN calls :
          /\ n <= Len(UnconditionalCalls) => SameCall(calls[n], UnconditionalCalls[n])
          /\ calls[n].op = "upload" =>
                /\ n > 1 /\ n <= Len(UnconditionalCalls)
                /\ calls[n - 1].op = "download" /\ calls[n - 1].ok
                /\ calls[n - 1].file = calls[n].file
                /\ calls[n].sse = "aws:kms"
    /\ pc \in {"patches", "done"} \cup FetchPcs =>
          /\ Len(calls) >= Len(UnconditionalCalls)
          /\ \A n \in 1..Len(UnconditionalCalls) : calls[n].ok
    /\ reaches_of_interest = <<>> =>
          \A n \in DOMAIN calls : calls[n].key # <<>> /\ calls[n].file # Mirror(<<>>)

\* C6 witness: a run with a subset file named has ended after at least the
\* four transfers.
C6_Witness ==
    /\ pc = "done"
    /\ reaches_of_interest = <<"roi_123.json">>
    /\ Len(calls) >= 4

\* C6 witness of the other case: a run without a subset file has ended.
C6_WitnessNoSubset ==
    /\ pc = "done"
    /\ reaches_of_interest = <<>>
    /\ Len(calls) >= 2

\* C7 as stated: a run given the delete-map-state flag, in which no storage
\* or filesystem operation failed, has listed {prefix}-map-state, and has
\* issued no delete call if the listing held no key and else exactly one
\* delete call carrying exactly the listed keys; a run without the flag
\* issues no call against {prefix}-map-state.
C7_PurgeOnRequest ==
    LET ms == prefix \o <<"-map-state">>
        lists == { n \in DOMAIN calls : calls[n].op = "list" /\ calls[n].bucket = ms }
        dels == { n \in DOMAIN calls : calls[n].op = "delete" /\ calls[n].bucket = ms }
        failed == err \in {"ClientError", "OSError", "FileExistsError",
                           "NotADirectoryError"}
    IN  /\ deletemap /\ pc \in Terminal /\ ~ failed =>
              /\ lists # {}
              /\ \A n \in lists :
                    IF calls[n].keys = {} THEN dels = {}
                    ELSE /\ Cardinality(dels) = 1
                         /\ \A m \in dels : calls[m].keys = calls[n].keys
        /\ ~ deletemap => \A n \in DOMAIN calls : calls[n].bucket # ms

\* The position of a step in init_workflow's order.
Rank(p) ==
    CASE p = "parse" -> 0
      [] p = "set_up_efs" -> 1
      [] p = "roi_download" -> 2
      [] p = "roi_upload" -> 3
      [] p = "cont_download" -> 4
      [] p = "cont_upload" -> 5
      [] p = "patches" -> 6
      [] p \in FetchPcs -> 7
      [] p = "done" -> 8
      [] p = "aborted" -> 9

\* A measure every step of a run increases: the step's rank, then the
\* prefix, the position inside download_directory, the pages and the items.
Progress ==
    Rank(pc) * 1000 + bi * 100
        + (CASE pc = "list_page" -> 20 [] pc = "items" -> 40 [] OTHER -> 0)
        + pn + ii

\* C8: a failed storage call is the last call of the run and leaves the run
\* aborted; the run is aborted exactly when an error was raised; once aborted
\* or completed nothing happens any more; no step removes a directory or a
\* file, and the failing step leaves the files as they were; a run ends
\* completed only with every call completed and the last prefix fetched; and
\* every run reaches the completed or the aborted state: short of them a
\* step can always be taken, and every step advances the run.
C8_AbortOnFirstFailure ==
    /\ [](/\ \A n \in DOMAIN calls :
                ~ calls[n].ok => n = Len(calls) /\ pc = "aborted"
          /\ pc = "aborted" <=> err # ""
          /\ pc = "done" =>
                /\ \A n \in DOMAIN calls : calls[n].ok
                /\ bi = 6
          /\ pc \notin Terminal => ENABLED Next)
    /\ [][ /\ pc \notin Terminal
           /\ dirs \subseteq dirs'
           /\ DOMAIN files \subseteq DOMAIN files'
           /\ pc' = "aborted" => files' = files
           /\ Progress' > Progress ]_vars

\* C8 witness: a download inside a prefix fetch has failed after an earlier
\* download of the run wrote a file, which is still there.
C8_Witness ==
    /\ pc = "aborted"
    /\ bi >= 1
    /\ Len(calls) >= 4
    /\ ~ calls[Len(calls)].ok
    /\ calls[Len(calls)].op = "download"
    /\ calls[1].file \in DOMAIN files

\* C8 witness of the other end: a run in which nothing failed is completed.
C8_WitnessDone ==
    /\ pc = "done"
    /\ err = ""
    /\ Len(calls) >= 5

\* C9: whenever a storage operation has been issued or a step of
\* download_data is at hand, every fixed directory exists; the steps follow
\* init_workflow's order, never going back; and a step issues at most one
\* storage call, the provisioner's none.
C9_StepOrdering ==
    /\ [](calls # <<>> \/ (Rank(pc) >= 2 /\ Rank(pc) <= 8) =>
            \A n \in DOMAIN EFS_DIRS : EFS_DIRS[n] \in dirs)
    /\ [][ /\ Rank(pc) <= Rank(pc')
           /\ Len(calls') <= Len(calls) + 1
           /\ SubSeq(calls', 1, Len(calls)) = calls
           /\ Rank(pc) <= 1 => calls' = calls ]_vars

\* C9 witness: the first storage operation of a run is at hand, on a disk
\* that held none of the fixed directories before the run.
C9_Witness ==
    /\ pc \in {"roi_download", "cont_download"}
    /\ calls = <<>>
    /\ snap.dirs0 = {}

\* C10: no destination written by a conditional fetch (the sword patches
\* fetch or a prefix fetch) is the destination of any other download call of
\* the run.
C10_OneDownloadPerDestination ==
    \A m, n \in DOMAIN calls :
        /\ m < n
        /\ n > Len(UnconditionalCalls)
        /\ calls[m].op = "download" /\ calls[n].op = "download"
        => calls[m].file # calls[n].file

\* C10 witness: the "sword" listing held sword_patches_v216.json, which the
\* marker fetch had downloaded, and one key twice; the fetch is over.
C10_Witness ==
    /\ pc = "items"
    /\ bi = 2
    /\ ii = Len(items)
    /\ \E n \in DOMAIN calls :
          calls[n].key = <<"sword", "_patches_v216.json">> /\ calls[n].op = "download"
    /\ \E a, b \in DOMAIN items : a # b /\ items[a] = items[b]
    /\ <<"sword", "_patches_v216.json">> \in { items[n] : n \in DOMAIN items }
    /\ Cardinality(FetchCalls) = 1

====
